---- MODULE Spec2Model ----
(***************************************************************************)
(* Resume extractor: the batch worker of app.py (process_files_sequential), *)
(* the parser of parser.py (parse_resume, _call_ollama), the identity store *)
(* of db-handler.py (CandidateDB), the row store of excel_handler.py        *)
(* (append_row) and the duplicate resolver window of app.py.                *)
(*                                                                          *)
(* Strings are sequences of one-character strings, so that lower() and      *)
(* strip() are computed and not assumed.  Python's None is the empty        *)
(* sequence <<>> of an option value, Some(x) is <<x>>.                      *)
(***************************************************************************)
EXTENDS Integers, Sequences, FiniteSets, TLC

\* ----------------------------------------------------------------- bounds
MaxPaths == 2
MaxCount == 3
MaxClicks == 1
MaxRows == 2
MaxDay == 2
MaxWindow == 1
MaxThreads == 2
MaxImages == 1

\* ---------------------------------------------------------------- strings
\* str.lower() on one character.
LowerChar(c) ==
    CASE c = "A" -> "a"
      [] c = "B" -> "b"
      [] c = "N" -> "n"
      [] OTHER -> c

\* str.lower(): character by character.
Lower(s) == [k \in 1..Len(s) |-> LowerChar(s[k])]

RECURSIVE LStrip(_)
LStrip(s) == IF s # <<>> /\ Head(s) = " " THEN LStrip(Tail(s)) ELSE s

RECURSIVE RStrip(_)
RStrip(s) ==
    IF s # <<>> /\ s[Len(s)] = " " THEN RStrip(SubSeq(s, 1, Len(s) - 1)) ELSE s

\* str.strip(): leading and trailing blanks removed.
Strip(s) == RStrip(LStrip(s))

\* A decoded JSON value of the assist response: a string, or a value that is
\* not a string (a number, a list).  JSON null decodes to None and is the
\* "missing key" case of get_key.
JStr(s) == [t |-> "str", v |-> s]
JNum == [t |-> "num", v |-> <<>>]


\* ------------------------------------------------------------------ state
VARIABLES
    db,               \* CandidateDB: the candidates table, keyed by email
    rows,             \* the active spreadsheet: its data rows, in order
    var_dup,          \* the "Master DB Check" toggle
    PARSING_THREAD,   \* a batch worker exists
    STOP_EVENT,       \* the global names the batch's stop event
    stop_set,         \* the stop event of the current batch is set
    CONFLICTS,        \* staged duplicates of the current batch
    ui_queue,         \* callbacks marshalled to the UI loop by ui_call
    pc,               \* the worker's position
    w,                \* the worker's locals
    data,             \* the worker's parsed record of the file in flight
    lastOutcome,      \* the last "  -> ..." line the worker printed in its
                      \* batch, and the file it is about
    res,              \* the duplicate resolver window
    uploaded,         \* paths handed to workers so far
    nextFile,         \* files copied into the workspace so far
    TREE_DATA_CACHE,  \* the rows the tree shows, as the search filter reads them
    threads,          \* worker threads started and not yet returned
    clicks,           \* clicks on the table's controls so far
    ocr,              \* parser.py: the OCR path cache and the machine it probes
    xt,               \* parser.py: the threads inside extract_text
    tmp,              \* parser.py: the temporary image folders that exist
    chk,              \* excel_handler.py: a duplicate query and its answers
    asst              \* parser.py: a call of parse_resume, step by step

\* The window and its batch worker.
app == <<db, rows, var_dup, PARSING_THREAD, STOP_EVENT, stop_set,
         CONFLICTS, ui_queue, pc, w, data, lastOutcome, res, uploaded,
         nextFile, TREE_DATA_CACHE, threads, clicks>>

\* The extraction path, called outside the window.
extraction == <<ocr, xt, tmp>>

vars == <<db, rows, var_dup, PARSING_THREAD, STOP_EVENT, stop_set,
          CONFLICTS, ui_queue, pc, w, data, lastOutcome, res, uploaded,
          nextFile, TREE_DATA_CACHE, threads, clicks, ocr, xt, tmp, chk, asst>>

None == <<>>
Some(x) == <<x>>
IsNone(o) == o = <<>>
Val(o) == o[1]

\* --------------------------------------------------------------- parser.py
\* str.capitalize() on the three keys _call_ollama asks for.
Capitalize(key) ==
    CASE key = "name" -> "Name"
      [] key = "email" -> "Email"
      [] key = "phone" -> "Phone"
      [] OTHER -> key

\* get_key: the lowercase key, else its capitalized form, else None.  A JSON
\* null is stored as None, so a null value reads like a missing key.
get_key(obj, key) ==
    IF key \in DOMAIN obj THEN obj[key]
    ELSE IF Capitalize(key) \in DOMAIN obj THEN obj[Capitalize(key)]
    ELSE None

\* A decoded JSON object with the three lowercase keys.
Obj(n, e, p) == [k \in {"name", "email", "phone"} |->
                    CASE k = "name" -> Some(n) [] k = "email" -> Some(e) [] OTHER -> Some(p)]

\* The outcomes of the HTTP call and of decoding its body.
\*   kind "request_error": connection failure, timeout, non-2xx status
\*   kind "empty":         no 'response' string in the body
\*   kind "no_json":       no '{' or no '}' in the response
\*   kind "bad_json":      json.loads fails on the block
\*   kind "ok":            json.loads gives the object obj
Capitalized(obj) == [k \in {Capitalize(x) : x \in DOMAIN obj} |->
                        obj[CHOOSE x \in DOMAIN obj : Capitalize(x) = k]]

Responses ==
    {[kind |-> k, obj |-> <<>>] : k \in {"request_error", "empty", "no_json", "bad_json"}}
    \cup {[kind |-> "ok", obj |-> o] : o \in
            {Obj(JStr(<<"n">>), JStr(<<"a">>), JStr(<<"p">>)),
             Obj(JStr(<<"n">>), JStr(<<"A", " ">>), JStr(<<"p">>)),
             Obj(JStr(<<"n">>), JStr(<<"b">>), JStr(<<"p">>)),
             Obj(JStr(<<"n">>), JStr(<<>>), JStr(<<"p">>)),
             Obj(JStr(<<>>), JStr(<<"a">>), JStr(<<>>)),
             Obj(JStr(<<>>), JStr(<<>>), JStr(<<>>)),
             Obj(JStr(<<"n">>), JNum, JStr(<<"p">>)),
             Capitalized(Obj(JStr(<<"n">>), JStr(<<"b">>), JStr(<<"p">>))),
             [k \in {"name", "email"} |-> Some(JStr(<<"n">>))],
             [k \in {"name", "email", "phone"} |->
                 IF k = "phone" THEN None ELSE Some(JStr(<<"a">>))]}}

\* _call_ollama: None, or the dict {name, email, phone}.
call_ollama(resp) ==
    IF resp.kind # "ok" THEN None
    ELSE LET name_val == get_key(resp.obj, "name")
             email_val == get_key(resp.obj, "email")
             phone_val == get_key(resp.obj, "phone")
         IN IF IsNone(name_val) \/ IsNone(email_val) \/ IsNone(phone_val)
            THEN None
            ELSE Some([name |-> Val(name_val), email |-> Val(email_val),
                       phone |-> Val(phone_val)])

\* The text extract_text returns: "" for an unsupported type, a document
\* without text, or an extraction error; otherwise the cleaned text.
Texts == {<<>>, <<"t">>}

\* parse_resume: None, or the dict for the sheet.  The TextSnippet entry is
\* left out: nothing reads it.  The worker calls it with the path alone; the
\* second parameter, nlp_model_unused, is not read.
parse_resume(file_path, text, resp) ==
    IF Strip(text) = <<>> THEN None
    ELSE LET parsed_data == call_ollama(resp)
         IN IF IsNone(parsed_data) THEN None
            ELSE Some([Name |-> Val(parsed_data).name,
                       Email |-> Val(parsed_data).email,
                       Phone |-> Val(parsed_data).phone,
                       ResumePath |-> file_path])

\* Python truth of a decoded value: a non-empty string, or a number.
Truthy(j) == j.t = "num" \/ j.v # <<>>

\* --------------------------------------------------- experience clean-up
IsNumChar(c) == c \in {"0", "1", "2", "3", "4", "5", "6", "7", "8", "9", "."}

RECURSIVE DropToNum(_)
DropToNum(s) == IF s = <<>> \/ IsNumChar(Head(s)) THEN s ELSE DropToNum(Tail(s))

RECURSIVE TakeNum(_)
TakeNum(s) == IF s = <<>> \/ ~IsNumChar(Head(s)) THEN <<>> ELSE <<Head(s)>> \o TakeNum(Tail(s))

Years == <<"y", "e", "a", "r", "s">>

RECURSIVE RemoveYears(_)
RemoveYears(s) ==
    IF Len(s) < Len(Years) THEN s
    ELSE IF SubSeq(s, 1, Len(Years)) = Years THEN RemoveYears(SubSeq(s, Len(Years) + 1, Len(s)))
    ELSE <<Head(s)>> \o RemoveYears(Tail(s))

\* exp_val of the worker and of the resolver: the default "0" when the record
\* has no Experience, else the first run of digits and dots of the lowered
\* text without "years", else "0".
clean_experience(d) ==
    LET raw == IF "Experience" \in DOMAIN d THEN d.Experience ELSE <<"0">>
        exp_str == Strip(RemoveYears(Lower(raw)))
        first == TakeNum(DropToNum(exp_str))
    IN IF first = <<>> THEN <<"0">> ELSE first

\* ----------------------------------------------------------- db-handler.py
\* get_candidate: the row under the email, as a dict that carries the email.
get_candidate(store, email) ==
    IF email \in DOMAIN store THEN Some([email |-> email] @@ store[email]) ELSE None

\* The row an INSERT or UPDATE writes, but for the counter.
DbRow(d, current_date, count) ==
    [name |-> d.name, phone |-> d.phone, experience |-> d.experience,
     last_applied_date |-> current_date, resume_path |-> d.resume_path,
     application_count |-> count]

\* upsert_candidate, the store it leaves.  UPDATE ... WHERE email = ? changes
\* the row under exactly that email, and no row when there is none; INSERT
\* under an email already present violates the primary key and changes
\* nothing.
upsert_candidate(store, d, is_update, current_date) ==
    IF is_update
    THEN IF d.email \in DOMAIN store
         THEN [store EXCEPT ![d.email] =
                  DbRow(d, current_date, store[d.email].application_count + 1)]
         ELSE store
    ELSE IF d.email \in DOMAIN store
         THEN store
         ELSE (d.email :> DbRow(d, current_date, 1)) @@ store

\* What upsert_candidate returns: False when the statement raised.  An
\* UPDATE that matches no row raises nothing.
upsert_returns(store, d, is_update) ==
    is_update \/ d.email \notin DOMAIN store

\* get_candidates_by_name, which the worker calls and CandidateDB does not
\* define: the rows whose name is the given name, as "look up by name" reads.
get_candidates_by_name(store, name) ==
    {[email |-> e] @@ store[e] : e \in {k \in DOMAIN store : store[k].name = name}}

\* -------------------------------------------------------- excel_handler.py
\* date.today().isoformat(): a date cell that datetime.fromisoformat reads.
isoformat(day) == [t |-> "date", v |-> day]

\* append_row: the sheet after ws.append(row); wb.save(path).  The serial
\* number is ws.max_row, the header row plus the data rows so far.  The row
\* has the columns the window reads back (S.No., Name, Email, Phone,
\* Experience, Status), the status being the one the caller passes, and the
\* DateApplied and ResumePath columns; OriginalFile, which no record carries,
\* is left out.
append_row(sheet, d, status, today) ==
    Append(sheet, [SNo |-> Len(sheet) + 1,
                   Name |-> d.Name, Email |-> d.Email, Phone |-> d.Phone,
                   Experience |-> IF "Experience" \in DOMAIN d THEN d.Experience ELSE <<>>,
                   Status |-> status, DateApplied |-> isoformat(today),
                   ResumePath |-> d.ResumePath])

\* load_workbook(path): the workbook as the file holds it.
load_workbook(sheet) == sheet

\* append_row has no return statement: its caller gets None.
append_row_returns(sheet, d) == None

\* read_all_rows: the data rows that are not entirely empty.
read_all_rows(sheet) ==
    SelectSeq(sheet, LAMBDA r : r.SNo # 0 \/ Truthy(r.Name) \/ Truthy(r.Email)
                                \/ Truthy(r.Phone))

\* update_status(path, sno, status), which save_candidate_status calls and
\* excel_handler does not define: the sheet with the status of the row
\* numbered sno replaced, as "updateStatus(serialNumber, status)" reads.
update_status(sheet, sno, status) ==
    [k \in 1..Len(sheet) |->
        IF sheet[k].SNo = sno THEN [sheet[k] EXCEPT !.Status = status]
        ELSE sheet[k]]

\* Its result: whether a row has that number.
update_status_returns(sheet, sno) == \E k \in 1..Len(sheet) : sheet[k].SNo = sno

\* The column indices of the first definitions, counted from 0.
EMAIL_COL_IDX == 2
DATE_COL_IDX == 5

\* A data row as iter_rows(values_only=True) yields it, in the order of
\* DEFAULT_COLS: S.No., Name, Email, Phone, OriginalFile, DateApplied,
\* ResumePath.
Cells(r) == <<r.SNo, r.Name, r.Email, r.Phone, JStr(<<>>), r.DateApplied,
              r.ResumePath>>

\* s.split(','), cur being the piece begun.
RECURSIVE Split(_, _)
Split(s, cur) ==
    IF s = <<>> THEN <<cur>>
    ELSE IF Head(s) = "," THEN <<cur>> \o Split(Tail(s), <<>>)
    ELSE Split(Tail(s), Append(cur, Head(s)))

\* {e.strip().lower() for e in s.split(',') if e.strip()}.
emails_in(s) ==
    LET parts == Split(s, <<>>)
    IN {Lower(Strip(parts[k])) : k \in {j \in 1..Len(parts) : Strip(parts[j]) # <<>>}}

\* Lines 149-170 and 247-267: what a stored date makes of a matching row: no
\* date, a date that does not parse and a date within the window all count
\* as duplicate.
date_says_duplicate(row_date, days, now) ==
    IF row_date.t = "none" THEN TRUE
    ELSE IF row_date.t # "date" THEN TRUE
    ELSE now - row_date.v <= days

\* The date existing_emails_map keeps for an email: that of the first row
\* whose email cell holds it.
existing_emails_map(sheet, e) ==
    LET hits == {k \in 1..Len(sheet) :
                    /\ Truthy(Cells(sheet[k])[EMAIL_COL_IDX + 1])
                    /\ e \in emails_in(Cells(sheet[k])[EMAIL_COL_IDX + 1].v)}
    IN IF hits = {} THEN None
       ELSE Some(Cells(sheet[CHOOSE k \in hits : \A j \in hits : k <= j])[DATE_COL_IDX + 1])

\* email_duplicate_within_days, lines 105-177.  exists: the file is there;
\* readable: load_workbook does not raise.
email_duplicate_within_days(exists, readable, sheet, email_str, days, now) ==
    IF ~exists \/ email_str = <<>> THEN FALSE
    ELSE IF emails_in(email_str) = {} THEN FALSE
    ELSE IF ~readable THEN TRUE
    ELSE IF sheet = <<>> THEN FALSE
    ELSE \E e \in emails_in(email_str) :
            /\ ~IsNone(existing_emails_map(sheet, e))
            /\ date_says_duplicate(Val(existing_emails_map(sheet, e)), days, now)

\* The second definition, lines 224-275: it reads the email in column 1 and
\* the date in column 5, row by row, and answers False when the file cannot
\* be read.
email_duplicate_within_days_2(exists, readable, sheet, email, days, now) ==
    IF ~exists \/ email = <<>> THEN FALSE
    ELSE IF ~readable THEN FALSE
    ELSE \E k \in 1..Len(sheet) :
            /\ Truthy(Cells(sheet[k])[2])
            /\ Lower(Strip(Cells(sheet[k])[2].v)) = Lower(Strip(email))
            /\ date_says_duplicate(Cells(sheet[k])[6], days, now)

\* The threads that call extract_text.
Threads == 1..MaxThreads

\* The extraction path and the duplicate query at rest: the function
\* attribute tesseract_cmd_path not yet set, pytesseract's command its
\* default, no Tesseract installed; no thread inside extract_text.
Ocr0 == [attr |-> "unset", cmd |-> "tesseract", installed |-> {}, on_path |-> FALSE]
X0 == [pc |-> "idle", kind |-> "-", imgs |-> 0, text |-> FALSE, result |-> None,
       used |-> "-", ocr_raised |-> FALSE, logged |-> FALSE]
Xt0 == [t \in Threads |-> X0]
Chk0 == [exists |-> FALSE, sheet |-> <<>>, now |-> 0, asked |-> FALSE,
         q |-> <<>>, days |-> 0, v1 |-> FALSE, v2 |-> FALSE]

\* No call of parse_resume under way.
Asst0 == [pc |-> "idle", text |-> <<>>, resp |-> [kind |-> "-", obj |-> <<>>],
          raised |-> FALSE, logged |-> FALSE, parsed |-> None, result |-> None,
          counted |-> "-"]

\* ------------------------------------------------------------------ app.py
NewApplicant == "New Applicant"
Accepted == "Accepted"
ReApplicant == "Re-Applicant (Updated)"
DuplicateIgnored == "Duplicate (Ignored)"

\* The worker's locals before a batch.
W0 == [raw_n |-> 0, cp_i |-> 0, processed_paths |-> <<>>, i |-> 0,
       cnt_new |-> 0, cnt_dup |-> 0, cnt_fail |-> 0, check_db |-> FALSE,
       email |-> <<>>, wb |-> <<>>, progress_steps |-> 0]

\* The resolver window when none is open.
R0 == [open |-> FALSE, conflicts |-> <<>>, resolved |-> {}, current |-> 0,
       enabled |-> FALSE, timers |-> {}, listbox |-> <<>>, lbl_status |-> "-"]

\* datetime.now(), date.today(): the clock advances with every path uploaded.
datetime_now == uploaded

\* A candidate an earlier run of the program saved as new: its row in the
\* identity store and its line in the sheet.  (Path 0 is a file of that run.)
EarlierData == [Experience |-> <<"0">>, Name |-> JStr(<<"n">>),
                Email |-> JStr(<<"a">>), Phone |-> JStr(<<"p">>), ResumePath |-> 0]

EarlierDb ==
    upsert_candidate(<<>>,
        [email |-> <<"a">>, name |-> EarlierData.Name, phone |-> EarlierData.Phone,
         experience |-> EarlierData.Experience, resume_path |-> 0], FALSE, 0)

EarlierRows == append_row(<<>>, EarlierData, NewApplicant, 0)

\* The program starts on the files earlier runs left: none, or those of one
\* earlier candidate.
NoOutcome == [line |-> "-", fname |-> 0]

\* print(f"  -> ...") while the file fname is in flight.
Printed(line, fname) == [line |-> line, fname |-> fname]

\* Lines 681-685: the tuple a thread appends to the cache after append_row.
row_data(new_sno, d, status) ==
    [SNo |-> new_sno, Name |-> d.Name, Email |-> d.Email, Phone |-> d.Phone,
     Experience |-> d.Experience, Status |-> status]

\* refresh_tree_from_excel, lines 502-513: the first six columns of the
\* rows that have a serial number.
tree_rows(sheet) ==
    LET numbered == SelectSeq(read_all_rows(sheet), LAMBDA r : r.SNo # 0)
    IN [k \in 1..Len(numbered) |->
           row_data(Some(numbered[k].SNo), numbered[k], numbered[k].Status)]

\* The window with nothing on file and nothing running.
AppAtRest ==
    /\ db = <<>> /\ rows = <<>>
    /\ var_dup = TRUE
    /\ PARSING_THREAD = FALSE
    /\ STOP_EVENT = FALSE
    /\ stop_set = FALSE
    /\ CONFLICTS = <<>>
    /\ ui_queue = <<>>
    /\ pc = "idle"
    /\ w = W0
    /\ data = None
    /\ lastOutcome = NoOutcome
    /\ res = R0
    /\ uploaded = 0
    /\ nextFile = 0
    /\ TREE_DATA_CACHE = <<>>
    /\ threads = 0
    /\ clicks = 0

Init ==
    /\ \/ db = <<>> /\ rows = <<>>
       \/ db = EarlierDb /\ rows = EarlierRows
    /\ var_dup \in BOOLEAN
    /\ PARSING_THREAD = FALSE
    /\ STOP_EVENT = FALSE
    /\ stop_set = FALSE
    /\ CONFLICTS = <<>>
    /\ ui_queue = <<>>
    /\ pc = "idle"
    /\ w = W0
    /\ data = None
    /\ lastOutcome = NoOutcome
    /\ res = R0
    /\ uploaded = 0
    /\ nextFile = 0
    /\ TREE_DATA_CACHE = tree_rows(rows)
    /\ threads = 0
    /\ clicks = 0
    /\ ocr = Ocr0
    /\ xt = Xt0
    /\ tmp = {}
    /\ chk = Chk0
    /\ asst = Asst0

\* f"no_email_{os.urandom(4).hex()}": a key no other record has; the file's
\* own path number stands for the random hex digits.
no_email_key(fid) == [k \in 1..(fid + 1) |-> "#"]

\* Line 732: the test on_upload makes before it starts a worker.
\* The test is left out.
worker_exists_unchecked(thread) == FALSE

worker_exists(thread) == thread

\* on_upload: refused while a worker exists; otherwise a new stop event and a
\* new worker over the chosen paths.  The resolver window is modal, so the
\* upload buttons do not react while it is open.
on_upload(n) ==
    /\ ~worker_exists(PARSING_THREAD)
    /\ ~res.open
    /\ uploaded + n <= MaxPaths
    /\ uploaded' = uploaded + n
    /\ STOP_EVENT' = TRUE
    /\ stop_set' = FALSE
    /\ PARSING_THREAD' = TRUE
    /\ threads' = threads + 1
    /\ pc' = "start"
    /\ w' = [W0 EXCEPT !.raw_n = n, !.check_db = var_dup]
    /\ UNCHANGED <<db, rows, var_dup, CONFLICTS, ui_queue, data, lastOutcome,
                   res, nextFile>>
    /\ UNCHANGED <<TREE_DATA_CACHE, clicks, ocr, xt, tmp, chk, asst>>

\* on_stop_parsing: sets the event the global names, if any.
on_stop_parsing ==
    /\ STOP_EVENT
    /\ ~stop_set
    /\ stop_set' = TRUE
    /\ UNCHANGED <<db, rows, var_dup, PARSING_THREAD, STOP_EVENT, CONFLICTS,
                   ui_queue, pc, w, data, lastOutcome, res, uploaded, nextFile>>
    /\ UNCHANGED <<TREE_DATA_CACHE, threads, clicks, ocr, xt, tmp, chk, asst>>

\* save_dup_config: the toggle was clicked.  A worker has its own copy of
\* the setting, so a click during a batch is a click after it.
save_dup_config ==
    /\ ~res.open
    /\ ~PARSING_THREAD
    /\ var_dup' = ~var_dup
    /\ UNCHANGED <<db, rows, PARSING_THREAD, STOP_EVENT, stop_set, CONFLICTS,
                   ui_queue, pc, w, data, lastOutcome, res, uploaded, nextFile>>
    /\ UNCHANGED <<TREE_DATA_CACHE, threads, clicks, ocr, xt, tmp, chk, asst>>

\* ui_call, lines 459-460: root.after(0, ...) queues the callback for the
\* UI loop, which runs the callbacks in the order they were queued.
\* The callback is not queued.
ui_call_dropped(queue, msg) == queue

ui_call(queue, msg) == Append(queue, msg)

\* The arguments of ui_call(parsing_complete, new, dup, fail, 0, stopped).
CompleteMsg(new, dup, fail, stopped) ==
    [fn |-> "parsing_complete", new |-> new, dup |-> dup, fail |-> fail,
     stopped |-> stopped]

\* process_files_sequential, lines 587-595: the globals and locals are reset.
W_Begin ==
    /\ pc = "start"
    /\ CONFLICTS' = <<>>
    /\ pc' = "copy"
    /\ UNCHANGED <<db, rows, var_dup, PARSING_THREAD, STOP_EVENT, stop_set,
                   ui_queue, w, data, lastOutcome, res, uploaded, nextFile>>
    /\ UNCHANGED <<TREE_DATA_CACHE, threads, clicks, ocr, xt, tmp, chk, asst>>

\* One turn of the copy loop, lines 597-611: stop ends the batch with an
\* all-zero summary; a copy that raises drops the file.
W_Copy ==
    /\ pc = "copy"
    /\ w.cp_i < w.raw_n
    /\ IF stop_set
       THEN /\ ui_queue' = ui_call(ui_queue, CompleteMsg(0, 0, 0, TRUE))
            /\ pc' = "done"
            /\ threads' = threads - 1
            /\ UNCHANGED <<w, nextFile>>
       ELSE /\ \E copied \in BOOLEAN :
                 IF copied
                 THEN /\ nextFile' = nextFile + 1
                      /\ w' = [w EXCEPT !.cp_i = @ + 1,
                                        !.processed_paths = Append(@, nextFile + 1)]
                 ELSE /\ w' = [w EXCEPT !.cp_i = @ + 1]
                      /\ UNCHANGED nextFile
            /\ UNCHANGED <<ui_queue, pc, threads>>
    /\ UNCHANGED <<db, rows, var_dup, PARSING_THREAD, STOP_EVENT, stop_set,
                   CONFLICTS, data, lastOutcome, res, uploaded>>
    /\ UNCHANGED <<TREE_DATA_CACHE, clicks, ocr, xt, tmp, chk, asst>>

\* The copy loop is exhausted: lines 613-617.
W_CopyDone ==
    /\ pc = "copy"
    /\ w.cp_i = w.raw_n
    /\ pc' = "parse_head"
    /\ UNCHANGED <<db, rows, var_dup, PARSING_THREAD, STOP_EVENT, stop_set,
                   CONFLICTS, ui_queue, w, data, lastOutcome, res, uploaded,
                   nextFile>>
    /\ UNCHANGED <<TREE_DATA_CACHE, threads, clicks, ocr, xt, tmp, chk, asst>>

\* The head of the parse loop, lines 619-622 and 701-702: the stop flag is
\* read before each file; on stop or exhaustion the summary is posted.
\* The flag is not read in the parse loop.
stop_check_never(flag) == FALSE

stop_check(flag) == flag

W_ParseHead ==
    /\ pc = "parse_head"
    /\ IF w.i < Len(w.processed_paths)
       THEN IF stop_check(stop_set)
            THEN /\ ui_queue' = ui_call(ui_queue,
                        CompleteMsg(w.cnt_new, w.cnt_dup, w.cnt_fail, TRUE))
                 /\ pc' = "done"
                 /\ threads' = threads - 1
            ELSE /\ pc' = "parse"
                 /\ UNCHANGED <<ui_queue, threads>>
       ELSE /\ ui_queue' = ui_call(ui_queue,
                   CompleteMsg(w.cnt_new, w.cnt_dup, w.cnt_fail, FALSE))
            /\ pc' = "done"
            /\ threads' = threads - 1
    /\ UNCHANGED <<db, rows, var_dup, PARSING_THREAD, STOP_EVENT, stop_set,
                   CONFLICTS, w, data, lastOutcome, res, uploaded, nextFile>>
    /\ UNCHANGED <<TREE_DATA_CACHE, clicks, ocr, xt, tmp, chk, asst>>

\* The file in flight.
CurrentFile == w.processed_paths[w.i + 1]

\* The except clause of the per-file try, lines 695-699: one failure counted,
\* on to the next file.
\* The failure is swallowed without being counted.
file_raised_uncounted(loc) == [loc EXCEPT !.i = @ + 1]

file_raised(loc) == [loc EXCEPT !.cnt_fail = @ + 1, !.i = @ + 1]

\* ui_call(progress.step, 1), lines 634 and 699: one more step of the
\* progress bar is posted.
progress_step(loc) == [loc EXCEPT !.progress_steps = @ + 1]

\* Line 631, "if not data": parse_resume gave no record.
parse_failed(d) == IsNone(d)

\* Lines 628-645: parse, normalise the email, clean the experience.  A file
\* that gave no record posts a step at line 634 and, leaving the try by
\* continue, another in the finally clause, line 699.
W_Parse ==
    /\ pc = "parse"
    /\ \E text \in Texts, resp \in Responses :
          LET d == parse_resume(CurrentFile, text, resp)
          IN IF parse_failed(d)
             THEN /\ w' = progress_step(progress_step(
                              [w EXCEPT !.cnt_fail = @ + 1, !.i = @ + 1]))
                  /\ lastOutcome' = Printed("Failed to parse", CurrentFile)
                  /\ data' = None
                  /\ pc' = "parse_head"
             ELSE IF Val(d).Email.t # "str"
             THEN /\ w' = progress_step(file_raised(w))
                  /\ lastOutcome' = Printed("ERROR AttributeError", CurrentFile)
                  /\ data' = None
                  /\ pc' = "parse_head"
             ELSE /\ w' = [w EXCEPT !.email = Lower(Strip(Val(d).Email.v))]
                  /\ data' = Some([Experience |-> clean_experience(Val(d))] @@ Val(d))
                  /\ pc' = "resolve"
                  /\ UNCHANGED lastOutcome
    /\ UNCHANGED <<db, rows, var_dup, PARSING_THREAD, STOP_EVENT, stop_set,
                   CONFLICTS, ui_queue, res, uploaded, nextFile>>
    /\ UNCHANGED <<TREE_DATA_CACHE, threads, clicks, ocr, xt, tmp, chk, asst>>

\* Lines 650-661: the record the candidate is compared with, and whether it
\* was found by name.  Several name matches: name_matches[0] is whichever
\* the store lists first.
\* The store is consulted whether or not checking is on.
lookup_existing_unconditional(store, check_db, email, d) ==
    LET by_email == IF email # <<>> THEN get_candidate(store, email) ELSE None
    IN IF ~IsNone(by_email)
       THEN {[old |-> Val(by_email), inferred |-> FALSE]}
       ELSE IF Truthy(d.Name)
       THEN {[old |-> m, inferred |-> TRUE] : m \in get_candidates_by_name(store, d.Name)}
       ELSE {}

\* The lookup by name is left out.
lookup_existing_email_only(store, check_db, email, d) ==
    IF ~check_db \/ email = <<>> \/ IsNone(get_candidate(store, email)) THEN {}
    ELSE {[old |-> Val(get_candidate(store, email)), inferred |-> FALSE]}

lookup_existing(store, check_db, email, d) ==
    IF ~check_db THEN {}
    ELSE LET by_email == IF email # <<>> THEN get_candidate(store, email) ELSE None
         IN IF ~IsNone(by_email)
            THEN {[old |-> Val(by_email), inferred |-> FALSE]}
            ELSE IF Truthy(d.Name)
            THEN {[old |-> m, inferred |-> TRUE] : m \in get_candidates_by_name(store, d.Name)}
            ELSE {}

\* Line 660: data['inferred_from_name'] = True.
flag_inferred(d, inferred) ==
    IF inferred THEN [inferred_from_name |-> TRUE] @@ d ELSE d

\* Lines 647-670: a found record stages a conflict; otherwise the candidate
\* is saved as new.
W_Resolve ==
    /\ pc = "resolve"
    /\ LET found == lookup_existing(db, w.check_db, w.email, Val(data))
       IN IF found # {}
          THEN \E f \in found :
                 /\ CONFLICTS' = Append(CONFLICTS,
                        [new |-> flag_inferred(Val(data), f.inferred),
                         old |-> f.old, file |-> CurrentFile])
                 /\ w' = progress_step([w EXCEPT !.cnt_dup = @ + 1, !.i = @ + 1])
                 /\ lastOutcome' = Printed("DUPLICATE FOUND", CurrentFile)
                 /\ data' = None
                 /\ pc' = "parse_head"
          ELSE /\ lastOutcome' = Printed("New Candidate", CurrentFile)
               /\ pc' = "save"
               /\ UNCHANGED <<CONFLICTS, w, data>>
    /\ UNCHANGED <<db, rows, var_dup, PARSING_THREAD, STOP_EVENT, stop_set,
                   ui_queue, res, uploaded, nextFile>>
    /\ UNCHANGED <<TREE_DATA_CACHE, threads, clicks, ocr, xt, tmp, chk, asst>>

\* Lines 671-676: the dict handed to the identity store.
new_db_data(email, d) ==
    [email |-> IF email # <<>> THEN email ELSE no_email_key(d.ResumePath),
     name |-> d.Name, phone |-> d.Phone, experience |-> d.Experience,
     resume_path |-> d.ResumePath]

\* Line 677: the insert, when checking is on.  Its return value is dropped.
W_Upsert ==
    /\ pc = "save"
    /\ db' = IF w.check_db
             THEN upsert_candidate(db, new_db_data(w.email, Val(data)), FALSE, datetime_now)
             ELSE db
    /\ pc' = "load"
    /\ UNCHANGED <<rows, var_dup, PARSING_THREAD, STOP_EVENT, stop_set,
                   CONFLICTS, ui_queue, w, data, lastOutcome, res, uploaded,
                   nextFile>>
    /\ UNCHANGED <<TREE_DATA_CACHE, threads, clicks, ocr, xt, tmp, chk, asst>>

\* Line 678, append_row lines 47-53: the worker reads the workbook from the
\* file.  Nothing keeps the UI thread from writing the file before the
\* worker writes it back.
W_Load ==
    /\ pc = "load"
    /\ w' = [w EXCEPT !.wb = load_workbook(rows)]
    /\ pc' = "append"
    /\ UNCHANGED <<db, rows, var_dup, PARSING_THREAD, STOP_EVENT, stop_set,
                   CONFLICTS, ui_queue, data, lastOutcome, res, uploaded,
                   nextFile>>
    /\ UNCHANGED <<TREE_DATA_CACHE, threads, clicks, ocr, xt, tmp, chk, asst>>

\* Lines 678-699: the row is written with the workbook read before, the
\* cache extended by the worker itself and the file counted new; append_row
\* re-raises PermissionError when the sheet is open in another program
\* (excel_locked), which the per-file except clause counts as a failure.
W_Append ==
    /\ pc = "append"
    /\ \E excel_locked \in BOOLEAN :
         IF excel_locked
         THEN /\ w' = progress_step([file_raised(w) EXCEPT !.wb = <<>>])
              /\ lastOutcome' = Printed("ERROR PermissionError", CurrentFile)
              /\ UNCHANGED <<rows, TREE_DATA_CACHE>>
         ELSE /\ rows' = append_row(w.wb, Val(data), NewApplicant, datetime_now)
              /\ TREE_DATA_CACHE' = Append(TREE_DATA_CACHE,
                     row_data(append_row_returns(w.wb, Val(data)), Val(data),
                              NewApplicant))
              /\ w' = progress_step(
                          [w EXCEPT !.cnt_new = @ + 1, !.i = @ + 1, !.wb = <<>>])
              /\ UNCHANGED lastOutcome
    /\ data' = None
    /\ pc' = "parse_head"
    /\ UNCHANGED <<db, var_dup, PARSING_THREAD, STOP_EVENT, stop_set,
                   CONFLICTS, ui_queue, res, uploaded, nextFile>>
    /\ UNCHANGED <<threads, clicks, ocr, xt, tmp, chk, asst>>

\* create_widgets, lines 150-155: one list entry per conflict.  The label
\* computed from the email and the name-match flag is not inserted: the entry
\* shows the name alone.
listbox_entry(c) == c.new.Name

\* Line 153: what the window reads of the name-match flag.
ui_inferred_from_name(c) ==
    "inferred_from_name" \in DOMAIN c /\ c.inferred_from_name

\* DuplicateResolver.__init__: the window over the staged conflicts, the
\* first conflict loaded.
open_resolver(conflicts) ==
    [open |-> TRUE, conflicts |-> conflicts, resolved |-> {}, current |-> 1,
     enabled |-> TRUE, timers |-> {},
     listbox |-> [k \in 1..Len(conflicts) |-> listbox_entry(conflicts[k])],
     lbl_status |-> "ACTION REQUIRED"]

\* parsing_complete, run by the UI loop: the worker and the stop event are
\* forgotten, the summary is shown, the resolver opens when duplicates were
\* staged.
parsing_complete ==
    /\ ui_queue # <<>>
    /\ Head(ui_queue).fn = "parsing_complete"
    /\ LET m == Head(ui_queue)
       IN res' = IF m.dup > 0 THEN open_resolver(CONFLICTS) ELSE res
    /\ ui_queue' = Tail(ui_queue)
    /\ PARSING_THREAD' = FALSE
    /\ STOP_EVENT' = FALSE
    /\ stop_set' = FALSE
    /\ pc' = "idle"
    /\ w' = W0
    /\ lastOutcome' = NoOutcome
    /\ UNCHANGED <<db, rows, var_dup, CONFLICTS, data, uploaded, nextFile>>
    /\ UNCHANGED <<TREE_DATA_CACHE, threads, clicks, ocr, xt, tmp, chk, asst>>

\* load_conflict: the conflict shown, its buttons enabled unless resolved.
load_conflict(r, index) ==
    [r EXCEPT !.current = index,
              !.enabled = index \notin r.resolved,
              !.lbl_status = IF index \in r.resolved THEN "RESOLVED"
                             ELSE "ACTION REQUIRED"]

\* on_select: a list entry was clicked.
on_select(index) ==
    /\ res.open
    /\ index \in 1..Len(res.conflicts)
    /\ res' = load_conflict(res, index)
    /\ UNCHANGED <<db, rows, var_dup, PARSING_THREAD, STOP_EVENT, stop_set,
                   CONFLICTS, ui_queue, pc, w, data, lastOutcome, uploaded,
                   nextFile>>
    /\ UNCHANGED <<TREE_DATA_CACHE, threads, clicks, ocr, xt, tmp, chk, asst>>

\* self.after(300, load_conflict(next_idx)) fires.
resolver_timer(index) ==
    /\ res.open
    /\ index \in res.timers
    /\ res' = [load_conflict(res, index) EXCEPT !.timers = @ \ {index}]
    /\ UNCHANGED <<db, rows, var_dup, PARSING_THREAD, STOP_EVENT, stop_set,
                   CONFLICTS, ui_queue, pc, w, data, lastOutcome, uploaded,
                   nextFile>>
    /\ UNCHANGED <<TREE_DATA_CACHE, threads, clicks, ocr, xt, tmp, chk, asst>>

\* Lines 254-257: the new record as _finalize_action leaves it: on an update
\* an empty Email takes the old record's email.
finalize_data(c, update_db) ==
    IF update_db /\ ~Truthy(c.new.Email) /\ c.old.email # <<>>
    THEN [c.new EXCEPT !.Email = JStr(c.old.email)]
    ELSE c.new

\* Lines 248-265: the dict an update hands to the identity store.
update_db_data(c) ==
    LET d == finalize_data(c, TRUE)
    IN [email |-> d.Email.v, name |-> d.Name, phone |-> d.Phone,
        experience |-> clean_experience(d), resume_path |-> d.ResumePath]

\* Lines 246-266: the identity store after the action: untouched unless
\* update_db, else updated under the target email.
\* The store is updated whichever button was pressed.
finalize_db_always(store, c, update_db, current_date) ==
    upsert_candidate(store, update_db_data(c), TRUE, current_date)

finalize_db(store, c, update_db, current_date) ==
    IF update_db
    THEN upsert_candidate(store, update_db_data(c), TRUE, current_date)
    ELSE store

\* Lines 286-300: the window after a successful action on conflict k.
finalize_window(r, k, status_msg, conflicts) ==
    LET resolved == r.resolved \cup {k}
    IN IF k < Len(conflicts)
       THEN [r EXCEPT !.conflicts = conflicts, !.resolved = resolved,
                      !.lbl_status = status_msg, !.enabled = FALSE,
                      !.timers = @ \cup {k + 1}]
       ELSE IF Cardinality(resolved) = Len(conflicts)
       THEN R0
       ELSE [r EXCEPT !.conflicts = conflicts, !.resolved = resolved,
                      !.lbl_status = status_msg, !.enabled = FALSE]

\* _finalize_action: the store is updated first, then the row appended; when
\* append_row raises the error is shown and the conflict stays unresolved.
finalize_action(status_msg, excel_status, update_db) ==
    /\ res.open
    /\ res.enabled
    /\ LET k == res.current
           c == res.conflicts[k]
           d == finalize_data(c, update_db)
           conflicts == [res.conflicts EXCEPT ![k].new = d]
       IN /\ update_db /\ d.Email.v \in DOMAIN db
                => db[d.Email.v].application_count < MaxCount
          /\ db' = finalize_db(db, c, update_db, datetime_now)
          /\ CONFLICTS' = conflicts
          /\ \E excel_locked \in BOOLEAN :
               IF excel_locked
               THEN /\ res' = [res EXCEPT !.conflicts = conflicts]
                    /\ UNCHANGED <<rows, TREE_DATA_CACHE>>
               ELSE /\ rows' = append_row(load_workbook(rows), d, excel_status,
                                          datetime_now)
                    /\ TREE_DATA_CACHE' = Append(TREE_DATA_CACHE,
                           row_data(append_row_returns(rows, d), d, excel_status))
                    /\ res' = finalize_window(res, k, status_msg, conflicts)
    /\ UNCHANGED <<var_dup, PARSING_THREAD, STOP_EVENT, stop_set, ui_queue,
                   pc, w, data, lastOutcome, uploaded, nextFile>>
    /\ UNCHANGED <<threads, clicks, ocr, xt, tmp, chk, asst>>

keep_old == finalize_action("IGNORED", DuplicateIgnored, FALSE)

replace_new == finalize_action("UPDATED", ReApplicant, TRUE)

\* on_close_window: the window is closed, resolved or not.
on_close_window ==
    /\ res.open
    /\ res' = R0
    /\ UNCHANGED <<db, rows, var_dup, PARSING_THREAD, STOP_EVENT, stop_set,
                   CONFLICTS, ui_queue, pc, w, data, lastOutcome, uploaded,
                   nextFile>>
    /\ UNCHANGED <<TREE_DATA_CACHE, threads, clicks, ocr, xt, tmp, chk, asst>>

\* The clicks on the table's controls that are followed: MaxClicks of them.
table_click == clicks < MaxClicks

\* refresh_tree_from_excel, run when the active sheet is chosen again
\* (select_active_excel, set_active_excel): the cache is rebuilt from the file.
refresh_tree_from_excel ==
    /\ ~res.open
    /\ table_click
    /\ clicks' = clicks + 1
    /\ TREE_DATA_CACHE' = tree_rows(rows)
    /\ UNCHANGED <<db, rows, var_dup, PARSING_THREAD, STOP_EVENT, stop_set,
                   CONFLICTS, ui_queue, pc, w, data, lastOutcome, res, uploaded,
                   nextFile, threads>>
    /\ UNCHANGED <<ocr, xt, tmp, chk, asst>>

\* Lines 542-547: the first cache row numbered sno takes the status; int()
\* of a row without a number raises before later rows are looked at.
cache_status(cache, sno, s) ==
    LET hits == {k \in 1..Len(cache) : cache[k].SNo = Some(sno)}
        bad == {k \in 1..Len(cache) : IsNone(cache[k].SNo)}
    IN IF hits = {} THEN cache
       ELSE LET k == CHOOSE x \in hits : \A y \in hits : x <= y
            IN IF \E b \in bad : b < k THEN cache
               ELSE [cache EXCEPT ![k].Status = s]

\* save_candidate_status: "Update Status" on the selected tree row, whose
\* item id is its serial number: the sheet is rewritten on the UI thread,
\* then the tree and the cache.
save_candidate_status(sno, s) ==
    /\ ~res.open
    /\ table_click
    /\ \E k \in 1..Len(TREE_DATA_CACHE) : TREE_DATA_CACHE[k].SNo = Some(sno)
    /\ clicks' = clicks + 1
    /\ IF update_status_returns(load_workbook(rows), sno)
       THEN /\ rows' = update_status(load_workbook(rows), sno, s)
            /\ TREE_DATA_CACHE' = cache_status(TREE_DATA_CACHE, sno, s)
       ELSE UNCHANGED <<rows, TREE_DATA_CACHE>>
    /\ UNCHANGED <<db, var_dup, PARSING_THREAD, STOP_EVENT, stop_set,
                   CONFLICTS, ui_queue, pc, w, data, lastOutcome, res, uploaded,
                   nextFile, threads>>
    /\ UNCHANGED <<ocr, xt, tmp, chk, asst>>

Next ==
    \/ \E n \in 1..MaxPaths : on_upload(n)
    \/ on_stop_parsing
    \/ save_dup_config
    \/ W_Begin
    \/ W_Copy
    \/ W_CopyDone
    \/ W_ParseHead
    \/ W_Parse
    \/ W_Resolve
    \/ W_Upsert
    \/ W_Load
    \/ W_Append
    \/ parsing_complete
    \/ \E k \in 1..Len(res.conflicts) : on_select(k)
    \/ \E k \in res.timers : resolver_timer(k)
    \/ keep_old
    \/ replace_new
    \/ on_close_window

\* Uploading, stopping, the batch worker and the resolver.
Spec == Init /\ [][Next]_vars

\* The steps of the worker thread.
WorkerNext ==
    \/ W_Begin
    \/ W_Copy
    \/ W_CopyDone
    \/ W_ParseHead
    \/ W_Parse
    \/ W_Resolve
    \/ W_Upsert
    \/ W_Load
    \/ W_Append

\* The same, the worker thread being scheduled until it returns and the UI
\* loop running the callbacks queued with root.after.
SpecLive == Init /\ [][Next]_vars /\ WF_vars(WorkerNext) /\ WF_vars(parsing_complete)

\* The same with the table's own controls.
NextTable ==
    \/ Next
    \/ refresh_tree_from_excel
    \/ \E sno \in 1..Len(rows) : save_candidate_status(sno, Accepted)

SpecTable == Init /\ [][NextTable]_vars

\* ------------------------------------------------- parser.py: extraction
\* TESSERACT_PATHS, in the order they are probed.
TESSERACT_PATHS == <<"Program Files", "Program Files (x86)">>

\* Lines 75-79: the first path that exists, or None.
probe(installed) ==
    IF TESSERACT_PATHS[1] \in installed THEN TESSERACT_PATHS[1]
    ELSE IF TESSERACT_PATHS[2] \in installed THEN TESSERACT_PATHS[2]
    ELSE "None"

\* The command a call uses when it resolves the path alone.
resolved_cmd(installed) ==
    IF probe(installed) = "None" THEN Ocr0.cmd ELSE probe(installed)

\* The command names a binary that is there.
binary_found(o) ==
    IF o.cmd = Ocr0.cmd THEN o.on_path ELSE o.cmd \in o.installed

\* extract_text's return values: ("", []) and a text with its lines.
EmptyResult == <<<<>>, <<>>>>
TextResult == <<<<"t">>, <<<<"t">>>>>>

\* Lines 92-103: Image.open and image_to_string inside the try: the text,
\* or "" with a line in the log when the binary is missing or the image
\* cannot be decoded or recognised.
\* The except clauses are left out.
run_ocr_unhandled(found, decode) ==
    IF ~found \/ decode = "error"
    THEN [raised |-> TRUE, text |-> FALSE, logged |-> FALSE]
    ELSE [raised |-> FALSE, text |-> decode = "text", logged |-> FALSE]

run_ocr(found, decode) ==
    IF ~found \/ decode = "error"
    THEN [raised |-> FALSE, text |-> FALSE, logged |-> TRUE]
    ELSE [raised |-> FALSE, text |-> decode = "text", logged |-> FALSE]

\* The machine: which of the two paths hold a Tesseract, and whether one is
\* on the PATH.
InitExtract ==
    /\ AppAtRest
    /\ chk = Chk0
    /\ asst = Asst0
    /\ \E installed \in SUBSET {TESSERACT_PATHS[1], TESSERACT_PATHS[2]},
          on_path \in BOOLEAN :
          ocr = [Ocr0 EXCEPT !.installed = installed, !.on_path = on_path]
    /\ xt = Xt0
    /\ tmp = {}

\* extract_text(file_path) up to the first image, lines 110-128 and
\* 146-153: another extension returns ("", []) at once; a PDF that cannot
\* be opened goes to the outer except and returns ("", []); a DOCX gets its
\* folder under ocr_temp.
x_call(t, kind, opens, native, n) ==
    /\ xt[t].pc = "idle"
    /\ IF kind = "other"
       THEN /\ xt' = [xt EXCEPT ![t] = [@ EXCEPT !.pc = "done", !.kind = kind,
                                                !.result = Some(EmptyResult)]]
            /\ UNCHANGED tmp
       ELSE IF kind = "pdf"
       THEN /\ xt' = [xt EXCEPT ![t] =
                        IF opens
                        THEN [@ EXCEPT !.pc = "images", !.kind = kind,
                                       !.text = native, !.imgs = n]
                        ELSE [@ EXCEPT !.pc = "done", !.kind = kind,
                                       !.logged = TRUE,
                                       !.result = Some(EmptyResult)]]
            /\ UNCHANGED tmp
       ELSE /\ xt' = [xt EXCEPT ![t] = [@ EXCEPT !.pc = "docx", !.kind = kind]]
            /\ tmp' = tmp \cup {t}
    /\ UNCHANGED <<ocr, chk, asst, app>>

\* Lines 153-156: docx2txt.process and os.listdir; when either raises the
\* outer except returns ("", []) and the folder is left behind.
x_docx(t, processed, native, n) ==
    /\ xt[t].pc = "docx"
    /\ xt' = [xt EXCEPT ![t] =
                IF processed
                THEN [@ EXCEPT !.pc = "images", !.text = native, !.imgs = n]
                ELSE [@ EXCEPT !.pc = "done", !.logged = TRUE,
                               !.result = Some(EmptyResult)]]
    /\ UNCHANGED <<ocr, tmp, chk, asst, app>>

\* The next image, lines 130-137 and 156-159, and the head of
\* _run_ocr_on_image, line 63: a PDF image that cannot be extracted is
\* logged and skipped; otherwise the call tests hasattr.
o_check(t, extracted) ==
    /\ xt[t].pc = "images"
    /\ xt[t].imgs > 0
    /\ xt' = [xt EXCEPT ![t] =
                IF xt[t].kind = "pdf" /\ ~extracted
                THEN [@ EXCEPT !.imgs = @ - 1, !.logged = TRUE]
                ELSE [@ EXCEPT !.pc = IF ocr.attr = "unset" THEN "ocr_init"
                                      ELSE "ocr_use"]]
    /\ UNCHANGED <<ocr, tmp, chk, asst, app>>

\* Line 65: the attribute is created, holding None.
o_init(t) ==
    /\ xt[t].pc = "ocr_init"
    /\ ocr' = [ocr EXCEPT !.attr = "None"]
    /\ xt' = [xt EXCEPT ![t].pc = "ocr_probe"]
    /\ UNCHANGED <<tmp, chk, asst, app>>

\* Lines 75-84: the paths are probed and the first that exists is stored.
o_probe(t) ==
    /\ xt[t].pc = "ocr_probe"
    /\ ocr' = [ocr EXCEPT !.attr = IF probe(ocr.installed) = "None" THEN @
                                   ELSE probe(ocr.installed)]
    /\ xt' = [xt EXCEPT ![t].pc = "ocr_use"]
    /\ UNCHANGED <<tmp, chk, asst, app>>

\* Lines 88-89: the attribute as it is now, if it holds a path, becomes
\* pytesseract's command.
o_use(t) ==
    /\ xt[t].pc = "ocr_use"
    /\ ocr' = [ocr EXCEPT !.cmd = IF ocr.attr = "None" THEN @ ELSE ocr.attr]
    /\ xt' = [xt EXCEPT ![t].pc = "ocr_run"]
    /\ UNCHANGED <<tmp, chk, asst, app>>

\* Lines 92-103 and the caller's use of the result: recognition runs with
\* the command of the moment.  Were the call to raise, the PDF loop would
\* log and go on (lines 141-142) and the DOCX branch would leave by the outer
\* except.
o_run(t, decode) ==
    /\ xt[t].pc = "ocr_run"
    /\ LET r == run_ocr(binary_found(ocr), decode)
       IN xt' = [xt EXCEPT ![t] =
                  IF r.raised /\ xt[t].kind = "docx"
                  THEN [@ EXCEPT !.pc = "done", !.used = ocr.cmd,
                                 !.ocr_raised = TRUE, !.logged = TRUE,
                                 !.result = Some(EmptyResult)]
                  ELSE [@ EXCEPT !.pc = "images", !.used = ocr.cmd,
                                 !.ocr_raised = r.raised,
                                 !.logged = r.logged \/ r.raised,
                                 !.text = @ \/ r.text,
                                 !.imgs = @ - 1]]
    /\ UNCHANGED <<ocr, tmp, chk, asst, app>>

\* Lines 161-187: the images are done.  The DOCX folder is emptied and
\* removed, unless that fails, which is logged; no text returns ("", []).
x_return(t, cleaned) ==
    /\ xt[t].pc = "images"
    /\ xt[t].imgs = 0
    /\ tmp' = IF xt[t].kind = "docx" /\ cleaned THEN tmp \ {t} ELSE tmp
    /\ xt' = [xt EXCEPT ![t] =
                [@ EXCEPT !.pc = "done",
                          !.result = Some(IF xt[t].text THEN TextResult
                                          ELSE EmptyResult)]]
    /\ UNCHANGED <<ocr, chk, asst, app>>

\* A step of thread t inside extract_text.
ExtractStep(t) ==
    \/ \E kind \in {"pdf", "docx", "other"}, opens \in BOOLEAN,
          native \in BOOLEAN, n \in 0..MaxImages : x_call(t, kind, opens, native, n)
    \/ \E processed \in BOOLEAN, native \in BOOLEAN, n \in 0..MaxImages :
          x_docx(t, processed, native, n)
    \/ \E extracted \in BOOLEAN : o_check(t, extracted)
    \/ o_init(t)
    \/ o_probe(t)
    \/ o_use(t)
    \/ \E decode \in {"text", "blank", "error"} : o_run(t, decode)
    \/ \E cleaned \in BOOLEAN : x_return(t, cleaned)

\* extract_text called from several threads at once.
NextExtract == \E t \in Threads : ExtractStep(t)

SpecExtract == InitExtract /\ [][NextExtract]_vars

\* extract_text as the window uses it: called by the one batch worker.
NextWorkerExtract == ExtractStep(1)

SpecWorkerExtract == InitExtract /\ [][NextWorkerExtract]_vars

\* ----------------------------------------- the time-windowed duplicate check
\* The emails and names on the sheet and the emails asked about.
SheetEmails == {<<"a">>, <<" ", "A">>, <<"b", ",", "a">>}
SheetNames == {<<"n">>, <<"a">>}
Queries == {<<>>, <<" ">>, <<"a">>, <<"A", " ">>, <<"b">>}

\* The answers of a query are forgotten when the sheet or the day changes.
Forget(c) == [c EXCEPT !.asked = FALSE, !.q = <<>>, !.days = 0,
                       !.v1 = FALSE, !.v2 = FALSE]

\* The sheet is absent, or ensure_excel has made it with its header row.
InitDup ==
    /\ AppAtRest
    /\ ocr = Ocr0 /\ xt = Xt0 /\ tmp = {}
    /\ asst = Asst0
    /\ \E made \in BOOLEAN : chk = [Chk0 EXCEPT !.exists = made]

\* save_to_excel: a record is appended today.
dup_append(name, email) ==
    /\ Len(chk.sheet) < MaxRows
    /\ chk' = [Forget(chk) EXCEPT
                 !.exists = TRUE,
                 !.sheet = append_row(@,
                     [Name |-> JStr(name), Email |-> JStr(email),
                      Phone |-> JStr(<<>>), ResumePath |-> 0],
                     NewApplicant, chk.now)]
    /\ UNCHANGED <<app, extraction, asst>>

\* A day passes.
dup_tick ==
    /\ chk.now < MaxDay
    /\ chk' = [Forget(chk) EXCEPT !.now = @ + 1]
    /\ UNCHANGED <<app, extraction, asst>>

\* The sheet is edited by hand: a date cell is emptied or overwritten with
\* text that is no date.
dup_edit(k, cell) ==
    /\ k \in 1..Len(chk.sheet)
    /\ chk.sheet[k].DateApplied.t = "date"
    /\ chk' = [Forget(chk) EXCEPT !.sheet[k].DateApplied = cell]
    /\ UNCHANGED <<app, extraction, asst>>

\* email_duplicate_within_days(path, q, days) is called, with either
\* definition.
dup_query(q, days, readable) ==
    /\ ~chk.asked
    /\ chk' = [chk EXCEPT
                 !.asked = TRUE, !.q = q, !.days = days,
                 !.v1 = email_duplicate_within_days(chk.exists, readable,
                            chk.sheet, q, days, chk.now),
                 !.v2 = email_duplicate_within_days_2(chk.exists, readable,
                            chk.sheet, q, days, chk.now)]
    /\ UNCHANGED <<app, extraction, asst>>

NextDup ==
    \/ \E name \in SheetNames, email \in SheetEmails : dup_append(name, email)
    \/ dup_tick
    \/ \E k \in 1..MaxRows, cell \in {[t |-> "none"], JStr(<<"?">>)} : dup_edit(k, cell)
    \/ \E q \in Queries, days \in 0..MaxWindow, readable \in BOOLEAN :
          dup_query(q, days, readable)

SpecDup == InitDup /\ [][NextDup]_vars

\* ------------------------------------------- parser.py: a call, step by step
\* The try of _call_ollama, lines 205-259: whether the call raises, whether
\* it logs, and what it returns.  The request errors (connection, timeout
\* of 120 s, non-2xx status by raise_for_status) and the decoding error have
\* their except clauses; every return of None is preceded by log_error.
\* The except clauses are left out.
call_ollama_uncaught(resp) ==
    [raised |-> resp.kind \in {"request_error", "bad_json"},
     logged |-> resp.kind \notin {"request_error", "bad_json"}
                  /\ IsNone(call_ollama(resp)),
     value |-> call_ollama(resp)]

call_ollama_try(resp) ==
    [raised |-> FALSE, logged |-> IsNone(call_ollama(resp)),
     value |-> call_ollama(resp)]

\* The texts extract_text hands to parse_resume, as sequences of words:
\* those of the worker, a blank one, and three that state an experience.
AssistTexts ==
    Texts \cup {<<" ">>,
                <<"3", "years", "experience,", "1", "year", "internship">>,
                <<"Total", "experience:", "5", "years">>,
                <<"2018", "-", "2021">>}

InitAssist ==
    /\ AppAtRest
    /\ ocr = Ocr0 /\ xt = Xt0 /\ tmp = {}
    /\ chk = Chk0
    /\ asst = Asst0

\* Lines 268-270: the text is extracted; no text ends the call with None.
p_extract(text) ==
    /\ asst.pc = "idle"
    /\ asst' = [asst EXCEPT !.text = text,
                            !.pc = IF Strip(text) = <<>> THEN "result" ELSE "call"]
    /\ UNCHANGED <<app, extraction, chk>>

\* Line 272: _call_ollama(text) with the endpoint answering resp.
p_call(resp) ==
    /\ asst.pc = "call"
    /\ LET o == call_ollama_try(resp)
       IN asst' = [asst EXCEPT !.resp = resp, !.raised = o.raised,
                               !.logged = o.logged, !.parsed = o.value,
                               !.pc = "returned"]
    /\ UNCHANGED <<app, extraction, chk>>

\* Lines 274-289: None from the call is logged and passed on; otherwise the
\* dict for the sheet.  An exception would be caught by the outer except,
\* logged, and None returned.
p_return ==
    /\ asst.pc = "returned"
    /\ asst' = [asst EXCEPT
                  !.result = IF asst.raised THEN None
                             ELSE parse_resume(0, asst.text, asst.resp),
                  !.logged = @ \/ asst.raised \/ IsNone(asst.parsed),
                  !.pc = "result"]
    /\ UNCHANGED <<app, extraction, chk>>

\* app.py, lines 630-635: the worker's test of what parse_resume returned.
p_worker ==
    /\ asst.pc = "result"
    /\ asst' = [asst EXCEPT
                  !.counted = IF parse_failed(asst.result) THEN "failed" ELSE "parsed",
                  !.pc = "done"]
    /\ UNCHANGED <<app, extraction, chk>>

\* The loop goes on with the next file.
p_next ==
    /\ asst.pc = "done"
    /\ asst' = Asst0
    /\ UNCHANGED <<app, extraction, chk>>

NextAssist ==
    \/ \E text \in AssistTexts : p_extract(text)
    \/ \E resp \in Responses : p_call(resp)
    \/ p_return
    \/ p_worker
    \/ p_next

SpecAssist == InitAssist /\ [][NextAssist]_vars

\* ------------------------------------------------------------- properties
\* A step of the batch worker.
WorkerStep == threads = 1 /\ (pc' # pc \/ w' # w)

InFlight == pc \in {"parse", "resolve", "save", "load", "append"}

\* The summary the worker posted last.
Posted == ui_queue[Len(ui_queue)]

Outcomes(m) == m.new + m.dup + m.fail

\* Something of the file is kept: a sheet row, a store row or a conflict.
Persisted(path) ==
    \/ \E k \in 1..Len(rows) : rows[k].ResumePath = path
    \/ \E e \in DOMAIN db : db[e].resume_path = path
    \/ \E k \in 1..Len(CONFLICTS) : CONFLICTS[k].file = path

\* The worker ended its batch on the stop flag, in the parse loop.
StoppedInParse ==
    pc = "done" /\ ui_queue # <<>> /\ Posted.stopped /\ w.cp_i = w.raw_n

\* C1: a stop request takes effect between files only.  While a file is in
\* flight the worker goes on with that file whether or not the flag is set;
\* at the loop head with the flag set and files left, it starts no file,
\* changes no store and posts a summary marked stopped whose outcomes number
\* the k files processed so far; in the batch so ended nothing of the files
\* after the k-th is kept.
C1_StopBetweenFiles ==
    /\ [](StoppedInParse =>
            /\ w.i < Len(w.processed_paths)
            /\ Outcomes(Posted) = w.i
            /\ IsNone(data)
            /\ \A j \in (w.i + 1)..Len(w.processed_paths) :
                  ~Persisted(w.processed_paths[j]))
    /\ [][/\ (stop_set /\ InFlight /\ WorkerStep) =>
               /\ pc' \in {"parse", "resolve", "save", "load", "append", "parse_head"}
               /\ pc' = "parse_head" <=> w'.i = w.i + 1
               /\ pc' # "parse_head" => w'.i = w.i
          /\ (stop_set /\ pc = "parse_head" /\ w.i < Len(w.processed_paths)
                /\ WorkerStep) =>
               /\ pc' = "done"
               /\ Posted'.stopped
               /\ Outcomes(Posted') = w.i
               /\ UNCHANGED <<db, rows, CONFLICTS, w>>]_vars

\* Stop after file 1 of 2: the first file's row is in the sheet.
C1_Witness ==
    /\ StoppedInParse
    /\ w.i = 1
    /\ Len(w.processed_paths) = 2
    /\ \E k \in 1..Len(rows) : rows[k].ResumePath = w.processed_paths[1]

AllEmpty(d) == ~Truthy(d.Name) /\ ~Truthy(d.Email) /\ ~Truthy(d.Phone)

\* C2: no record with empty name, email and phone is emitted or persisted:
\* parse_resume never returns one and no sheet row is one.
C2_NoEmptyRecord ==
    /\ ~IsNone(data) => ~AllEmpty(Val(data))
    /\ \A k \in 1..Len(rows) : ~AllEmpty(rows[k])

IsError(o) == o.line \in {"ERROR AttributeError", "ERROR PermissionError"}

\* C3: an exception in one file's processing is caught at the file's
\* boundary: it adds exactly one to the failures, to no other counter, and
\* the worker is back at the loop head on the next file; a batch that was not
\* stopped ends with one outcome per file.
C3_ExceptionCountedOnce ==
    /\ []((pc = "done" /\ ui_queue # <<>> /\ ~Posted.stopped) =>
            Outcomes(Posted) = Len(w.processed_paths))
    /\ [][(lastOutcome' # lastOutcome /\ IsError(lastOutcome')) =>
             /\ w'.cnt_fail = w.cnt_fail + 1
             /\ w'.cnt_new = w.cnt_new
             /\ w'.cnt_dup = w.cnt_dup
             /\ w'.i = w.i + 1
             /\ pc' = "parse_head"]_vars

\* The first file raised in append_row; the second is being parsed.
C3_Witness ==
    /\ pc = "parse"
    /\ w.i = 1
    /\ w.cnt_fail = 1
    /\ lastOutcome = Printed("ERROR PermissionError", w.processed_paths[1])

\* C4: after append_row failed the batch is paused or aborted: no file is in
\* flight while the last outcome is the unhandled persistence failure.
C4_PauseOnPersistenceFailure ==
    ~(lastOutcome.line = "ERROR PermissionError" /\ InFlight)

LastRow(sheet) == sheet[Len(sheet)]

\* The email as the lookup normalises it.
NormEmail(j) == Lower(Strip(j.v))

DigitVal(c) ==
    CASE c = "0" -> 0 [] c = "1" -> 1 [] c = "2" -> 2 [] c = "3" -> 3
      [] c = "4" -> 4 [] c = "5" -> 5 [] c = "6" -> 6 [] c = "7" -> 7
      [] c = "8" -> 8 [] c = "9" -> 9 [] OTHER -> -1

RECURSIVE IntOf(_, _)
IntOf(s, acc) ==
    IF s = <<>> \/ DigitVal(Head(s)) < 0 THEN acc
    ELSE IntOf(Tail(s), acc * 10 + DigitVal(Head(s)))

RECURSIVE AfterInt(_)
AfterInt(s) == IF s = <<>> \/ DigitVal(Head(s)) < 0 THEN s ELSE AfterInt(Tail(s))

ExpTenths(s) ==
    IF s = <<>> \/ DigitVal(Head(s)) < 0 THEN 0
    ELSE LET rest == AfterInt(s)
         IN IntOf(s, 0) * 10
            + (IF Len(rest) >= 2 /\ rest[1] = "." /\ DigitVal(rest[2]) >= 0
               THEN DigitVal(rest[2]) ELSE 0)

\* The resolver appends a row in this step.
ResolverAppends == res.open /\ rows' # rows

\* The conflict the resolver acts on.
Shown == res.conflicts[res.current]

ExistingFor(store, email, d) ==
    \/ email # <<>> /\ email \in DOMAIN store
    \/ Truthy(d.Name) /\ \E e \in DOMAIN store : store[e].name = d.Name

C7_NewIsPersisted ==
    [][(pc = "append" /\ pc' # pc /\ w.check_db) =>
          /\ \E e \in DOMAIN db' :
                /\ db'[e].resume_path = CurrentFile
                /\ db'[e].application_count = 1
          /\ Len(rows') = Len(rows) + 1
          /\ LastRow(rows').Status = NewApplicant
          /\ LastRow(rows').ResumePath = CurrentFile]_vars

\* C8: the update disposition mutates the matched record: its name, phone,
\* experience and resume path become the candidate's, its date is refreshed
\* and its application_count grows by exactly 1.
C8_UpdateMutatesMatched ==
    [][(ResolverAppends /\ LastRow(rows').Status = ReApplicant) =>
          LET e == Shown.old.email
          IN /\ e \in DOMAIN db'
             /\ e \in DOMAIN db
             /\ db'[e].application_count = db[e].application_count + 1
             /\ db'[e].name = Shown.new.Name
             /\ db'[e].phone = Shown.new.Phone
             /\ db'[e].experience = clean_experience(Shown.new)
             /\ db'[e].resume_path = Shown.new.ResumePath
             /\ db'[e].last_applied_date = datetime_now]_vars

\* C9: a Duplicate disposition leaves the identity store as it was: no
\* record changed, added or removed.
C9_DuplicateLeavesStore ==
    [][(ResolverAppends /\ LastRow(rows').Status = DuplicateIgnored) =>
          db' = db]_vars

\* A conflict was resolved as Duplicate (Ignored) against a stored record.
C9_Witness ==
    /\ db # <<>>
    /\ \E k \in 1..Len(rows) : rows[k].Status = DuplicateIgnored

\* C10: a conflict whose baseline was found by name carries the flag where
\* the resolver reads it.
C10_NameMatchVisible ==
    res.open =>
        \A k \in 1..Len(res.conflicts) :
            ("inferred_from_name" \in DOMAIN res.conflicts[k].new)
                => ui_inferred_from_name(res.conflicts[k])

\* C11: reading the sheet back gives every appended row, numbered 1..N in
\* insertion order; an append keeps the rows before it, gives the new row a
\* number greater than all of theirs, and hands that number to its caller,
\* which files it in the cache row it builds.
C11_SerialRoundTrip ==
    /\ [](/\ Len(read_all_rows(rows)) = Len(rows)
          /\ \A k \in 1..Len(rows) : read_all_rows(rows)[k].SNo = k)
    /\ [][Len(rows') > Len(rows) =>
             /\ Len(rows') = Len(rows) + 1
             /\ \A k \in 1..Len(rows) : LastRow(rows').SNo > rows[k].SNo
             /\ LastRow(TREE_DATA_CACHE').SNo = Some(LastRow(rows').SNo)]_vars

\* C14: the sheet and the identity store have one writer at a time: while
\* the worker is between reading the workbook and writing it back no other
\* write reaches the file, and the worker's write keeps every row as the
\* file had it.
C14_SingleWriter ==
    [][/\ (pc = "append" /\ ~WorkerStep) => (rows' = rows /\ db' = db)
       /\ (pc = "append" /\ WorkerStep) =>
              \A k \in 1..Len(rows) : rows'[k] = rows[k]]_vars

\* C15: no step of the worker thread changes state the UI thread owns: the
\* tree's cache, the resolver window, the toggle and the globals naming the
\* worker and its stop event change in UI callbacks only.
C15_WorkerMarshalsUi ==
    [][WorkerStep =>
          /\ TREE_DATA_CACHE' = TREE_DATA_CACHE
          /\ res' = res
          /\ var_dup' = var_dup
          /\ PARSING_THREAD' = PARSING_THREAD
          /\ STOP_EVENT' = STOP_EVENT]_vars

\* C16: there is never more than one worker thread, and it is the one the
\* global names; it takes its files one by one in the order they were
\* copied; a worker starts only when none exists and the completion
\* callback of the batch before has run, clearing both globals.
C16_OneWorker ==
    /\ [](/\ threads <= 1
          /\ threads = 1 => PARSING_THREAD
          /\ \A j, k \in 1..Len(w.processed_paths) :
                j < k => w.processed_paths[j] < w.processed_paths[k]
          /\ ~IsNone(data) => Val(data).ResumePath = CurrentFile)
    /\ [][/\ PARSING_THREAD => threads' <= threads
          /\ threads' > threads =>
                /\ threads = 0
                /\ ~PARSING_THREAD
                /\ ~STOP_EVENT
                /\ ui_queue = <<>>
          /\ (threads = 1 /\ w'.i # w.i) => w'.i = w.i + 1]_vars

\* The worker of a second batch is at work on a file, the worker of the
\* first batch having been cleared.
C16_Witness ==
    /\ threads = 1
    /\ pc = "parse"
    /\ uploaded > w.raw_n

\* A stored row matches the query q: one of its emails is one of q's,
\* trimmed and in lower case.
RowMatches(r, q) == Truthy(r.Email) /\ emails_in(r.Email.v) \cap emails_in(q) # {}

\* A matching row applied no more than days days ago.
RecentMatch(sheet, q, days, now) ==
    \E k \in 1..Len(sheet) :
        /\ RowMatches(sheet[k], q)
        /\ sheet[k].DateApplied.t = "date"
        /\ now - sheet[k].DateApplied.v <= days

\* C12: whenever a stored row carries one of the queried emails with a date
\* no more than days days old, email_duplicate_within_days answers True,
\* whichever other rows the sheet has: so too right after a record with that
\* email was appended, an older row with the same email lying outside the
\* window.
C12_RecentRowIsDuplicate ==
    (chk.asked /\ RecentMatch(chk.sheet, chk.q, chk.days, chk.now))
        => (chk.v1 /\ chk.v2)

\* A matching row whose date is missing or does not parse.
UndatedMatch(sheet, q) ==
    \E k \in 1..Len(sheet) :
        RowMatches(sheet[k], q) /\ sheet[k].DateApplied.t # "date"

\* C13: the check fails safe: a matching row with a missing or unparseable
\* date makes the answer True for every window; the answer is False only
\* when the sheet does not exist, the query holds no email, or no matching
\* row is within the window.
C13_FailSafe ==
    chk.asked =>
        /\ UndatedMatch(chk.sheet, chk.q) => (chk.v1 /\ chk.v2)
        /\ (~chk.v1 \/ ~chk.v2) =>
              \/ ~chk.exists
              \/ emails_in(chk.q) = {}
              \/ ~RecentMatch(chk.sheet, chk.q, chk.days, chk.now)

\* C17: the path cache is safe without a lock: every recognition runs with
\* the command a call resolving the path alone would use, and no call goes
\* on to recognition with the placeholder, whatever the threads' order.
C17_CacheSafe ==
    \A t \in Threads :
        /\ xt[t].used # "-" => xt[t].used = resolved_cmd(ocr.installed)
        /\ xt[t].pc = "ocr_run" => ocr.cmd = resolved_cmd(ocr.installed)

\* C18: _run_ocr_on_image never raises: a missing binary or a decoding
\* failure is logged and gives the empty string, which adds no text, and the
\* caller goes on with the images left.
C18_OcrNeverRaises ==
    /\ [](\A t \in Threads : ~xt[t].ocr_raised)
    /\ [][\A t \in Threads :
            (xt[t].pc = "ocr_run" /\ xt'[t] # xt[t]) =>
                /\ xt'[t].pc = "images"
                /\ xt'[t].imgs = xt[t].imgs - 1
                /\ ~binary_found(ocr) => xt'[t].logged
                /\ xt'[t].logged => xt'[t].text = xt[t].text]_vars

\* A DOCX whose image could not be read because no Tesseract was found:
\* the failure was logged and extract_text returned the document's own
\* text.
C18_Witness ==
    \E t \in Threads :
        /\ xt[t].pc = "done"
        /\ xt[t].kind = "docx"
        /\ xt[t].used # "-"
        /\ ~binary_found(ocr)
        /\ xt[t].logged
        /\ xt[t].result = Some(TextResult)

\* C19: the caller can tell an unsupported extension from a supported
\* document without text: what extract_text returns for the first is not
\* the empty result it returns for the second.
C19_OutcomesDistinct ==
    \A t \in Threads :
        (xt[t].pc = "done" /\ xt[t].kind = "other") =>
            xt[t].result # Some(EmptyResult)

\* C20: once extract_text has returned for a DOCX, by whichever path, the
\* folder made for it is gone.
C20_TempReleased ==
    \A t \in Threads :
        (xt[t].pc = "done" /\ xt[t].kind = "docx") => t \notin tmp
\* The answers of the endpoint that give no JSON object.
NoObject == {"request_error", "empty", "no_json", "bad_json"}

\* C21: the assisted extraction never raises past its caller: on a
\* connection failure, a non-2xx status, a timeout, an empty response or a
\* response without a decodable JSON object, _call_ollama logs and returns
\* None, parse_resume returns None, and the worker counts the file failed
\* and goes on.
C21_AssistNeverRaises ==
    /\ ~asst.raised
    /\ (asst.pc \in {"returned", "result", "done"} /\ asst.resp.kind \in NoObject) =>
          (asst.logged /\ IsNone(asst.parsed))
    /\ (asst.pc \in {"result", "done"} /\ asst.resp.kind \in NoObject) =>
          IsNone(asst.result)
    /\ (asst.pc = "done" /\ asst.resp.kind \in NoObject) => asst.counted = "failed"

\* The request failed for a resume with text: logged, no record, the file
\* counted failed.
C21_Witness ==
    /\ asst.pc = "done"
    /\ asst.resp.kind = "request_error"
    /\ Strip(asst.text) # <<>>
    /\ asst.logged
    /\ asst.counted = "failed"
\* The number a word writes, or -1.
WordNum(wd) ==
    CASE wd = "1" -> 1 [] wd = "3" -> 3 [] wd = "5" -> 5
      [] wd = "2018" -> 2018 [] wd = "2021" -> 2021 [] OTHER -> -1

Max(S) == CHOOSE x \in S : \A y \in S : y <= x

\* The duration the precedence of the claim selects in a text, or None:
\* the number of "experience: <n> years"; else the greatest <n> before
\* "years" or "yrs"; else the greatest non-negative end - start of the
\* ranges "<year> - <year>".
infer_years(text) ==
    LET at(k) == IF k \in 1..Len(text) THEN text[k] ELSE ""
        total == {WordNum(at(k + 1)) : k \in {j \in 1..Len(text) :
                     /\ at(j) = "experience:"
                     /\ WordNum(at(j + 1)) >= 0
                     /\ at(j + 2) = "years"}}
        simple == {WordNum(at(k)) : k \in {j \in 1..Len(text) :
                     WordNum(at(j)) >= 0 /\ at(j + 1) \in {"years", "yrs"}}}
        ranges == {WordNum(at(k + 2)) - WordNum(at(k)) : k \in {j \in 1..Len(text) :
                     /\ WordNum(at(j)) >= 0
                     /\ at(j + 1) = "-"
                     /\ WordNum(at(j + 2)) >= WordNum(at(j))}}
    IN IF total # {} THEN Some(Max(total))
       ELSE IF simple # {} THEN Some(Max(simple))
       ELSE IF ranges # {} THEN Some(Max(ranges))
       ELSE None

\* "<number> years", for a whole number below ten.
years_text(n) ==
    <<CHOOSE c \in {"0", "1", "2", "3", "4", "5", "6", "7", "8", "9"} :
          DigitVal(c) = n>> \o <<" ">> \o Years

\* C22: the record parse_resume returns carries the experience the
\* precedence selects in the resume's text, written "<number> years", and
\* an empty experience when the text states none: "3 years experience, 1
\* year internship" gives "3 years", "Total experience: 5 years" gives
\* "5 years", "2018 - 2021" gives "3 years".
C22_ExperienceInferred ==
    (asst.pc \in {"result", "done"} /\ ~IsNone(asst.result)) =>
        LET d == Val(asst.result)
            y == infer_years(asst.text)
        IN IF IsNone(y)
           THEN "Experience" \notin DOMAIN d \/ d.Experience = <<>>
           ELSE "Experience" \in DOMAIN d /\ d.Experience = years_text(Val(y))
\* The conflict staged last.
LastConflict(cs) == cs[Len(cs)]

\* C23: the identity store is keyed by the trimmed, lower-cased email
\* throughout: a candidate whose email differs from a stored key in case or
\* blanks only is matched with that record; a new candidate is inserted
\* under its normalised email; and the update the reviewer orders for a
\* conflict found by email is made under that same key, so that it changes
\* the record the lookup found.
C23_ConsistentKey ==
    [][/\ (pc = "resolve" /\ pc' # pc /\ w.check_db
             /\ NormEmail(Val(data).Email) # <<>>
             /\ NormEmail(Val(data).Email) \in DOMAIN db) =>
            /\ Len(CONFLICTS') = Len(CONFLICTS) + 1
            /\ LastConflict(CONFLICTS').old.email = NormEmail(Val(data).Email)
       /\ (pc = "save" /\ pc' # pc /\ w.check_db
             /\ NormEmail(Val(data).Email) # <<>>) =>
            NormEmail(Val(data).Email) \in DOMAIN db'
       /\ (ResolverAppends /\ LastRow(rows').Status = ReApplicant
             /\ Shown.old.email = NormEmail(Shown.new.Email)) =>
            /\ Shown.old.email \in DOMAIN db
            /\ db'[Shown.old.email].application_count
                 = db[Shown.old.email].application_count + 1
            /\ db'[Shown.old.email].resume_path = Shown.new.ResumePath]_vars
\* The worker is in its parse loop or has left it.
InParseLoop == pc \in {"parse_head", "parse", "resolve", "save", "load", "append"}

\* C24: the counters partition the files processed: whenever the worker is
\* between files, and so at the end of a batch, completed or stopped, new +
\* duplicate + failed is the number of files started, the conflicts staged
\* number the duplicates, and the summary posted carries these counters;
\* the sheet grows during a batch exactly as the new counter does.
C24_CountersPartition ==
    /\ [](/\ (pc = "parse_head" \/ (pc = "done" /\ w.cp_i = w.raw_n)) =>
                /\ w.cnt_new + w.cnt_dup + w.cnt_fail = w.i
                /\ Len(CONFLICTS) = w.cnt_dup
          /\ InParseLoop => Len(CONFLICTS) = w.cnt_dup
          /\ (pc = "done" /\ ui_queue # <<>>) =>
                /\ Posted.new = w.cnt_new
                /\ Posted.dup = w.cnt_dup
                /\ Posted.fail = w.cnt_fail
                /\ Outcomes(Posted) = w.i
                /\ Len(CONFLICTS) = Posted.dup)
    /\ [][(PARSING_THREAD /\ pc' # "idle") =>
             Len(rows') - Len(rows) = w'.cnt_new - w.cnt_new]_vars

\* A batch of two files ended with one new candidate and one duplicate.
C24_Witness ==
    /\ pc = "done"
    /\ ui_queue # <<>>
    /\ ~Posted.stopped
    /\ Posted.new = 1
    /\ Posted.dup = 1
    /\ Len(CONFLICTS) = 1
\* The identity store holds a record made from the file.
InStore(path) == \E e \in DOMAIN db : db[e].resume_path = path

\* The sheet holds the file's New Applicant row.
NewRowOf(path) ==
    \E k \in 1..Len(rows) :
        rows[k].ResumePath = path /\ rows[k].Status = NewApplicant

\* C25: with checking on, whenever the worker is between files, every file
\* it has processed is in the identity store if and only if its New
\* Applicant row is in the sheet: a file saved as new is in both, a file
\* counted failed or staged as a conflict is in neither.
C25_StoresConsistent ==
    (PARSING_THREAD /\ w.check_db /\ pc \in {"parse_head", "done"}) =>
        \A j \in 1..w.i :
            InStore(w.processed_paths[j]) <=> NewRowOf(w.processed_paths[j])
\* The rows the resolver wrote for a conflict.
ResolverRows(c) ==
    {j \in 1..Len(rows) :
        /\ rows[j].ResumePath = c.file
        /\ rows[j].Status \in {ReApplicant, DuplicateIgnored}}

\* C26: a staged conflict takes effect at most once: the sheet never has
\* two resolver rows for one conflict; a resolver step that changes the
\* identity store marks the conflict shown resolved in the same step, so no
\* second increment can follow a failed action; and while the conflict shown
\* is resolved no step changes the sheet or the store.
C26_AtMostOnce ==
    /\ [](res.open =>
            \A k \in 1..Len(res.conflicts) :
                Cardinality(ResolverRows(res.conflicts[k])) <= 1)
    /\ [][/\ (res.open /\ db' # db) =>
                (~res'.open \/ res.current \in res'.resolved)
          /\ (res.open /\ res.current \in res.resolved) =>
                (rows' = rows /\ db' = db)]_vars
\* C27: the resolver completes as soon as every conflict is resolved, in
\* whichever order: the window is never open with all its conflicts
\* resolved.
C27_CompletesInAnyOrder ==
    res.open => res.resolved # 1..Len(res.conflicts)
\* C28: every batch finishes and reports once: the worker reaches its end,
\* whatever fails and whenever stop is asked, posting one completion as its
\* last act; parsing_complete then runs, clearing the worker and the stop
\* event; and a batch stopped during the copy phase posts the all-zero
\* summary marked stopped, having parsed no file.
C28_BatchCompletesOnce ==
    /\ [](/\ Len(ui_queue) <= 1
          /\ (pc = "done" /\ ui_queue # <<>> /\ w.cp_i < w.raw_n) =>
                /\ Posted = CompleteMsg(0, 0, 0, TRUE)
                /\ w.i = 0
                /\ lastOutcome = NoOutcome)
    /\ [][/\ Len(ui_queue') > Len(ui_queue) => (pc # "done" /\ pc' = "done")
          /\ (pc # "done" /\ pc' = "done") => Len(ui_queue') = Len(ui_queue) + 1
          /\ (pc = "done" /\ pc' # pc) =>
                /\ pc' = "idle"
                /\ ui_queue' = <<>>
                /\ ~PARSING_THREAD'
                /\ ~STOP_EVENT'
                /\ threads' = 0]_vars
    /\ (PARSING_THREAD ~> (pc = "idle" /\ ~PARSING_THREAD /\ ~STOP_EVENT))

\* A batch of two files was stopped while the first was being copied: the
\* worker has ended and its summary is queued.
C28_Witness ==
    /\ pc = "done"
    /\ ui_queue # <<>>
    /\ Posted.stopped
    /\ w.raw_n = 2
    /\ w.cp_i = 0
\* C29: progress advances by one step per file started, whatever the file's
\* outcome: whenever the worker is between files the steps posted number
\* the files processed, and they never exceed the maximum the bar was given,
\* the number of files.
C29_OneStepPerFile ==
    pc \in {"parse_head", "done"} =>
        /\ w.progress_steps = w.i
        /\ w.progress_steps <= Len(w.processed_paths)
\* The store after a call holds the record the call was given, counted as
\* an insert or an update counts it.
TookEffect(store, after, d, is_update) ==
    /\ d.email \in DOMAIN after
    /\ after[d.email].name = d.name
    /\ after[d.email].phone = d.phone
    /\ after[d.email].experience = d.experience
    /\ after[d.email].resume_path = d.resume_path
    /\ IF is_update
       THEN /\ d.email \in DOMAIN store
            /\ after[d.email].application_count
                 = store[d.email].application_count + 1
       ELSE after[d.email].application_count = 1

\* upsert_candidate called with d left the store as after: True means the
\* record is there, False that nothing changed.
UpsertHonest(store, after, d, is_update) ==
    IF upsert_returns(store, d, is_update)
    THEN TookEffect(store, after, d, is_update)
    ELSE after = store

\* C30: an upsert that reports success has taken effect, in the worker's
\* insert of a new candidate and in the resolver's update alike; one that
\* reports failure has changed nothing.
C30_UpsertTakesEffect ==
    [][/\ (pc = "save" /\ pc' # pc /\ w.check_db) =>
            UpsertHonest(db, db', new_db_data(w.email, Val(data)), FALSE)
       /\ (ResolverAppends /\ LastRow(rows').Status = ReApplicant) =>
            UpsertHonest(db, db', update_db_data(Shown), TRUE)]_vars
====
